---- MODULE Spec2Model ----
(***************************************************************************)
(* Model of the DHCP authentication core of dhcpcd (src/auth.c):           *)
(*   dhcp_auth_validate      - validation of a received authentication     *)
(*                             option against the per-session authstate    *)
(*   get_next_rdm_monotonic  - the file backed monotonic replay counter    *)
(*   dhcp_auth_encode        - construction of an authentication option    *)
(*                                                                         *)
(* Messages are sequences of bytes (0..255).  C pointers into the message  *)
(* are 0-based offsets; m[i+1] is the byte at offset i.  A uint64_t that   *)
(* comes from the wire is kept as its 8 bytes in network order, so that    *)
(* the 64-bit arithmetic of the code is modelled at its width.             *)
(***************************************************************************)
EXTENDS Integers, Sequences, FiniteSets, TLC

(***************************************************************************)
(* Sizes and enumerations                                                  *)
(***************************************************************************)
HMAC_LENGTH == 16
SIZEOF_REPLAY == 8
SIZEOF_SECRETID == 4
RECONF_KEY_LEN == 16

AUTH_PROTO_TOKEN == 0
AUTH_PROTO_DELAYED == 1
AUTH_PROTO_RECONFKEY == 2
AUTH_PROTO_DELAYEDREALM == 3
AUTH_ALG_HMAC_MD5 == 1
AUTH_RDM_MONOTONIC == 0

DHCP_DISCOVER == 1
DHCP_REQUEST == 3
DHCP_ACK == 5
DHCP_INFORM == 8
DHCP6_SOLICIT == 1
DHCP6_REQUEST == 3
DHCP6_REPLY == 7
DHCP6_INFORMATION_REQ == 11

\* offsetof(struct dhcp_message, hwopcount) and offsetof(..., giaddr)
HWOPCOUNT_OFF == 3
GIADDR_OFF == 24
GIADDR_LEN == 4

(***************************************************************************)
(* Bytes                                                                   *)
(***************************************************************************)
Byte == 0..255

Min(a, b) == IF a < b THEN a ELSE b

\* n bytes of value 0 (memset(p, 0, n))
Zeros(n) == [i \in 1..n |-> 0]

\* the n bytes at offset off of m
Slice(m, off, n) == [i \in 1..n |-> m[off + i]]

\* memcpy(m + off, src, Len(src)); bytes falling past the end of m are not
\* part of m and are dropped here (the callers account for them)
Poke(m, off, src) ==
    [i \in 1..Len(m) |->
        IF i > off /\ i <= off + Len(src) THEN src[i - off] ELSE m[i]]

(***************************************************************************)
(* 64-bit and 32-bit values in network byte order                          *)
(***************************************************************************)
U64Zero == Zeros(SIZEOF_REPLAY)

\* borrow out of byte positions i..8 of a - b
RECURSIVE Borrow(_, _, _)
Borrow(a, b, i) ==
    IF i > SIZEOF_REPLAY THEN 0
    ELSE IF a[i] - b[i] - Borrow(a, b, i + 1) < 0 THEN 1 ELSE 0

\* a - b in uint64_t arithmetic (modulo 2^64)
U64Sub(a, b) ==
    [i \in 1..SIZEOF_REPLAY |-> (a[i] - b[i] - Borrow(a, b, i + 1) + 256) % 256]

\* a < b as unsigned 64-bit values
U64Less(a, b) == Borrow(a, b, 1) = 1

\* the uint64_t of value n, for a model integer 0 <= n < 2^31: its 8 bytes,
\* most significant first
U64(n) ==
    [i \in 1..SIZEOF_REPLAY |->
        IF i <= 4 THEN 0
        ELSE (n \div (IF i = 5 THEN 16777216 ELSE IF i = 6 THEN 65536
                      ELSE IF i = 7 THEN 256 ELSE 1)) % 256]

U64Max == [i \in 1..SIZEOF_REPLAY |-> 255]

\* a * k + d for small k and d, before reduction: the total that arrives at
\* byte position i from the positions to its right
RECURSIVE U64Total(_, _, _, _)
U64Total(a, k, d, i) ==
    a[i] * k + (IF i = SIZEOF_REPLAY THEN d ELSE U64Total(a, k, d, i + 1) \div 256)

\* a * k + d in uint64_t arithmetic (modulo 2^64), and whether it wrapped
U64MulAdd(a, k, d) ==
    LET B(i) == U64Total(a, k, d, i) % 256
    IN  <<B(1), B(2), B(3), B(4), B(5), B(6), B(7), B(8)>>
U64Wraps(a, k, d) == U64Total(a, k, d, 1) \div 256 > 0

\* rdm++ on a uint64_t
U64Inc(a) == U64MulAdd(a, 1, 1)

\* the remainder of the leading i bytes of a divided by 10
RECURSIVE U64Rem10(_, _)
U64Rem10(a, i) == IF i = 0 THEN 0 ELSE (U64Rem10(a, i - 1) * 256 + a[i]) % 10

\* a divided by 10
U64Div10(a) ==
    LET Q(i) == (U64Rem10(a, i - 1) * 256 + a[i]) \div 10
    IN  <<Q(1), Q(2), Q(3), Q(4), Q(5), Q(6), Q(7), Q(8)>>

\* rdm = htonll(rdm); memcpy(data, &rdm, 8): the bytes that reach the wire
\* are the value's bytes, most significant first
htonll(v) == v

\* memcpy + ntohll: the wire bytes are the value, most significant first
ntohll(b) == b

\* uint32_t from 4 wire bytes (memcpy + ntohl); the model's secret ids are
\* below 2^31
ntohl(b) == ((b[1] * 256 + b[2]) * 256 + b[3]) * 256 + b[4]

htonl(n) ==
    <<(n \div 16777216) % 256, (n \div 65536) % 256, (n \div 256) % 256, n % 256>>

(***************************************************************************)
(* hmac_md5 (crypt/hmac_md5.c, not part of the sources at hand): a keyed   *)
(* digest of 16 bytes that depends on every byte of the text and the key.  *)
(***************************************************************************)
\* the sum over positions lo..hi of the byte (plus one) times a weight of
\* the position, modulo a prime: a change of one byte changes the sum
RECURSIVE Mix(_, _, _)
Mix(s, lo, hi) ==
    IF lo > hi THEN 0
    ELSE IF lo = hi THEN ((s[lo] + 1) * (((lo * lo * 7 + lo * 13) % 4093) + 1)) % 65521
    ELSE LET mid == (lo + hi) \div 2
         IN  (Mix(s, lo, mid) + Mix(s, mid + 1, hi)) % 65521

hmac_md5(text, key) ==
    LET s == key \o <<Len(key)>> \o text
        h == Mix(s, 1, Len(s))
    IN  [i \in 1..HMAC_LENGTH |->
            IF i = 1 THEN h % 256
            ELSE IF i = 2 THEN (h \div 256) % 256
            ELSE (h * i + i) % 256]

(***************************************************************************)
(* Tokens, policy and session state                                        *)
(*   token     : [secretid, realm, key, expire]  (expire 0 = never)        *)
(*   auth      : [send, protocol, algorithm, rdm, tokens]                  *)
(*   authstate : [token, replay, reconf]                                   *)
(* A token pointer is NULLPTR, the address of the i-th token of            *)
(* auth->tokens, or the address of the token state->reconf points to.      *)
(* state.reconf is <<>> for NULL and <<token>> once allocated.             *)
(***************************************************************************)
NULLPTR == [kind |-> "null", ix |-> 0]
RECONFPTR == [kind |-> "reconf", ix |-> 0]
StorePtr(i) == [kind |-> "store", ix |-> i]

Deref(state, auth, p) ==
    IF p.kind = "store" THEN auth.tokens[p.ix] ELSE state.reconf[1]

\* the result of a call: the returned pointer, errno and the state it leaves
Err(state, e) == [ret |-> NULLPTR, errno |-> e, state |-> state]
Ok(state, t) == [ret |-> t, errno |-> "0", state |-> state]

(***************************************************************************)
(* dhcp_auth_validate, src/auth.c:83-300                                   *)
(* env carries what the call reads from its environment:                   *)
(*   now      - the value time() stores                                    *)
(*   timeFail - time() returns -1                                          *)
(*   failAt   - which malloc of the call returns NULL (0: none)            *)
(*   stack    - the bytes that follow hmac[] in the frame                  *)
(***************************************************************************)

\* a policy match that lets every header through
PolicyMatch_Any(auth, protocol, algorithm, rdm) == "0"

\* lines 112-125: 0 when the header passes, else the errno
PolicyMatch(auth, protocol, algorithm, rdm) ==
    IF ~auth.send
    THEN IF protocol # AUTH_PROTO_RECONFKEY THEN "EINVAL" ELSE "0"
    ELSE IF protocol # auth.protocol \/ algorithm # auth.algorithm
            \/ rdm # auth.rdm
         THEN "EPERM" ELSE "0"

\* a replay check that rejects nothing
ReplayRejected_Off(state, replay) == FALSE

\* line 133: state->token && replay - state->replay <= 0, both operands
\* uint64_t, so the difference is unsigned and is <= 0 only when it is 0
ReplayRejected(state, replay) ==
    state.token # NULLPTR /\ ~U64Less(U64Zero, U64Sub(replay, state.replay))

\* lines 228-234: the first token of the list matching secretid and realm,
\* 0 when the loop runs off the end
TokenMatches(t, secretid, realm) ==
    /\ t.secretid = secretid
    /\ Len(t.realm) = Len(realm)
    /\ (Len(t.realm) = 0 \/ t.realm = realm)

FindToken(tokens, secretid, realm) ==
    LET hits == {i \in 1..Len(tokens) : TokenMatches(tokens[i], secretid, realm)}
    IN  IF hits = {} THEN 0
        ELSE CHOOSE i \in hits : \A j \in hits : i <= j

\* a validator without the pin rule
PinRejected_Off(state, t) == FALSE

\* line 250: the pin rule
PinRejected(state, t) == state.token # NULLPTR /\ state.token # t

\* a copy in which hops and giaddr keep their wire values
ValidateCopy_NoRelay(m, d, dlen, mp) == Poke(m, d, Zeros(dlen))

\* lines 265-275: the copy of the message the MAC is computed over
ValidateCopy(m, d, dlen, mp) ==
    LET mm1 == Poke(m, d, Zeros(dlen))
    IN  IF mp = 4
        THEN Poke(Poke(mm1, HWOPCOUNT_OFF, <<0>>), GIADDR_OFF, Zeros(GIADDR_LEN))
        ELSE mm1

\* a comparison that accepts every MAC
MacMismatch_None(m, d, dlen, hmac, stack) == FALSE

\* line 289: memcmp(d, &hmac, dlen) # 0; past hmac[HMAC_LENGTH] the
\* comparison reads whatever follows the array in the frame
MacMismatch(m, d, dlen, hmac, stack) ==
    Slice(m, d, dlen) # SubSeq(hmac \o stack, 1, dlen)

\* the failed key allocation leaves the fresh token in place
ReleaseReconf_Leak(state) == state

\* lines 191-192: the key allocation failed, the fresh token is released
ReleaseReconf(state) == [state EXCEPT !.reconf = <<>>]

\* lines 294-299
Finish(state, replay, t) ==
    Ok([state EXCEPT !.replay = replay, !.token = t], t)

\* lines 248-292, from the label gottoken to the MAC comparison
GotToken(state, auth, m, mp, protocol, algorithm, replay, t, d, dlen, env) ==
    LET tok == Deref(state, auth, t) IN
    IF PinRejected(state, t) THEN Err(state, "EPERM")
    ELSE IF protocol = AUTH_PROTO_TOKEN
    THEN IF dlen # Len(tok.key) \/ Slice(m, d, dlen) # tok.key
         THEN Err(state, "EPERM")
         ELSE Finish(state, replay, t)
    ELSE IF env.failAt = 1 THEN Err(state, "ENOMEM")
    ELSE IF algorithm # AUTH_ALG_HMAC_MD5 THEN Err(state, "ENOSYS")
    ELSE IF MacMismatch(m, d, dlen,
                hmac_md5(ValidateCopy(m, d, dlen, mp), tok.key), env.stack)
         THEN Err(state, "EPERM")
         ELSE Finish(state, replay, t)

\* lines 226-246: lookup of the token and its expiry
Lookup(state, auth, m, mp, protocol, algorithm, replay, secretid, realm, d, dlen, env) ==
    LET i == FindToken(auth.tokens, secretid, realm) IN
    IF i = 0 THEN Err(state, "ESRCH")
    ELSE IF auth.tokens[i].expire # 0 /\ env.timeFail THEN Err(state, "ETIME")
    ELSE IF auth.tokens[i].expire # 0 /\ auth.tokens[i].expire < env.now
         THEN Err(state, "EFAULT")
    ELSE GotToken(state, auth, m, mp, protocol, algorithm, replay,
                  StorePtr(i), d, dlen, env)

\* a key delivery accepted in every message type
ReconfDeliver_AnyType(state, m, mp, mt, d, env) ==
    Ok([state EXCEPT !.reconf =
           <<[secretid |-> 0, realm |-> <<>>,
              key |-> Slice(m, d, RECONF_KEY_LEN), expire |-> 0]>>], RECONFPTR)

\* lines 180-209: RECONF_KEY type 1, the key delivery
ReconfDeliver(state, m, mp, mt, d, env) ==
    IF (mp = 4 /\ mt = DHCP_ACK) \/ (mp = 6 /\ mt = DHCP6_REPLY)
    THEN IF state.reconf = <<>>
         THEN IF env.failAt = 1 THEN Err(state, "ENOMEM")
              ELSE IF env.failAt = 2
                   THEN Err(ReleaseReconf(
                              [state EXCEPT !.reconf =
                                  <<[secretid |-> 0, realm |-> <<>>,
                                     key |-> <<>>, expire |-> 0]>>]),
                            "ENOMEM")
              ELSE Ok([state EXCEPT !.reconf =
                          <<[secretid |-> 0, realm |-> <<>>,
                             key |-> Slice(m, d, RECONF_KEY_LEN),
                             expire |-> 0]>>], RECONFPTR)
         ELSE Ok([state EXCEPT !.reconf[1].key = Slice(m, d, RECONF_KEY_LEN)],
                 RECONFPTR)
    ELSE Err(state, "EINVAL")

\* lines 144-224: the switch on the protocol byte; d and dlen are what is
\* left of the option after the header and the replay value
Extract(state, auth, m, mp, mt, protocol, algorithm, replay, d, dlen, env) ==
    IF protocol = AUTH_PROTO_TOKEN
    THEN Lookup(state, auth, m, mp, protocol, algorithm, replay, 0, <<>>,
                d, dlen, env)
    ELSE IF protocol = AUTH_PROTO_DELAYED
    THEN IF dlen < SIZEOF_SECRETID + HMAC_LENGTH THEN Err(state, "EINVAL")
         ELSE Lookup(state, auth, m, mp, protocol, algorithm, replay,
                     ntohl(Slice(m, d, SIZEOF_SECRETID)), <<>>,
                     d + SIZEOF_SECRETID, dlen - SIZEOF_SECRETID, env)
    ELSE IF protocol = AUTH_PROTO_DELAYEDREALM
    THEN IF dlen < SIZEOF_SECRETID + HMAC_LENGTH THEN Err(state, "EINVAL")
         ELSE LET realm_len == dlen - (SIZEOF_SECRETID + HMAC_LENGTH) IN
              Lookup(state, auth, m, mp, protocol, algorithm, replay,
                     ntohl(Slice(m, d + realm_len, SIZEOF_SECRETID)),
                     Slice(m, d, realm_len),
                     d + realm_len + SIZEOF_SECRETID,
                     dlen - realm_len - SIZEOF_SECRETID, env)
    ELSE IF protocol = AUTH_PROTO_RECONFKEY
    THEN IF dlen # 1 + RECONF_KEY_LEN THEN Err(state, "EINVAL")
         ELSE LET type == m[d + 1] IN
              IF type = 1 THEN ReconfDeliver(state, m, mp, mt, d + 1, env)
              ELSE IF type = 2
              THEN IF state.reconf = <<>> THEN Err(state, "ENOENT")
                   ELSE GotToken(state, auth, m, mp, protocol, algorithm,
                                 replay, RECONFPTR, d + 1, dlen - 1, env)
              ELSE Err(state, "EINVAL")
    ELSE Err(state, "ENOTSUP")

dhcp_auth_validate(state, auth, m, mp, mt, data, dlen, env) ==
    LET mlen == Len(m) IN
    IF dlen < 3 + SIZEOF_REPLAY THEN Err(state, "EINVAL")
    ELSE IF data < 0 \/ data > mlen \/ data + dlen > mlen
    THEN Err(state, "ERANGE")
    ELSE LET protocol == m[data + 1]
             algorithm == m[data + 2]
             rdm == m[data + 3]
             pm == PolicyMatch(auth, protocol, algorithm, rdm)
             replay == ntohll(Slice(m, data + 3, SIZEOF_REPLAY))
         IN  IF pm # "0" THEN Err(state, pm)
             ELSE IF ReplayRejected(state, replay) THEN Err(state, "EPERM")
             ELSE Extract(state, auth, m, mp, mt, protocol, algorithm, replay,
                          data + 3 + SIZEOF_REPLAY,
                          dlen - 3 - SIZEOF_REPLAY, env)

(***************************************************************************)
(* The configuration and the messages the validator is driven with         *)
(***************************************************************************)
MaxReplay == 2
MaxNow == 2

KeyHi == <<104, 105>>
KeyA == <<1, 2, 3>>
KeyB == <<4, 5, 6>>
KeyE == <<9>>
RealmAc == <<97, 99>>
RealmZz == <<122, 122>>
ReconfKey1 == [i \in 1..RECONF_KEY_LEN |-> i]
ReconfKey2 == [i \in 1..RECONF_KEY_LEN |-> 2 * i]

\* auth->tokens: the configured tokens, in list order
Tokens ==
    << [secretid |-> 0,  realm |-> <<>>,    key |-> KeyHi, expire |-> 0],
       [secretid |-> 42, realm |-> RealmAc, key |-> KeyA,  expire |-> 0],
       [secretid |-> 42, realm |-> <<>>,    key |-> KeyB,  expire |-> 0],
       [secretid |-> 7,  realm |-> <<>>,    key |-> KeyE,  expire |-> 1] >>

Policy(send, protocol, algorithm, rdm) ==
    [send |-> send, protocol |-> protocol, algorithm |-> algorithm,
     rdm |-> rdm, tokens |-> Tokens]

\* struct auth as configured: the three sending protocols, a client that
\* does not send authentication, an algorithm and a protocol the code does
\* not implement
Policies ==
    { Policy(TRUE, AUTH_PROTO_TOKEN, AUTH_ALG_HMAC_MD5, AUTH_RDM_MONOTONIC),
      Policy(TRUE, AUTH_PROTO_DELAYED, AUTH_ALG_HMAC_MD5, AUTH_RDM_MONOTONIC),
      Policy(TRUE, AUTH_PROTO_DELAYEDREALM, AUTH_ALG_HMAC_MD5, AUTH_RDM_MONOTONIC),
      Policy(FALSE, AUTH_PROTO_TOKEN, AUTH_ALG_HMAC_MD5, AUTH_RDM_MONOTONIC),
      Policy(TRUE, AUTH_PROTO_DELAYED, 2, AUTH_RDM_MONOTONIC),
      Policy(TRUE, 9, AUTH_ALG_HMAC_MD5, AUTH_RDM_MONOTONIC) }

\* replay values on the wire: 1..MaxReplay and one with the top bit set
Replays ==
    {htonll(U64(n)) : n \in 1..MaxReplay} \cup {[i \in 1..SIZEOF_REPLAY |-> IF i = 1 THEN 128 ELSE 0]}

\* the fixed part of a DHCPv4 message up to and including giaddr, followed
\* by the code and length bytes of the authentication option
Frame4(hops, giaddr, optlen) ==
    <<2, 1, 6, hops>> \o <<18, 52, 86, 120>> \o <<0, 0, 0, 0>>
        \o <<0, 0, 0, 0>> \o <<192, 168, 0, 9>> \o <<192, 168, 0, 1>>
        \o giaddr \o <<90, optlen>>

\* a DHCPv6 message: type, transaction id, option code and length
Frame6(mt, optlen) == <<mt, 18, 52, 86>> \o <<0, 11, 0, optlen>>

\* a received message and the slice (data, dlen) of its option
MkMsg(mp, mt, relay, opt) ==
    LET hdr == IF mp = 4 THEN Frame4(relay.hops, relay.giaddr, Len(opt))
               ELSE Frame6(mt, Len(opt))
    IN  [m |-> hdr \o opt, mp |-> mp, mt |-> mt,
         data |-> Len(hdr), dlen |-> Len(opt)]

\* the sender's side of RFC 3118 5.2: the MAC at option offset off, computed
\* under key over the message with zlen bytes from the MAC on, hops and
\* giaddr zeroed
Sign(msg, off, zlen, key) ==
    LET z == Poke(msg.m, msg.data + off, Zeros(zlen))
        n == IF msg.mp = 4
             THEN Poke(Poke(z, HWOPCOUNT_OFF, <<0>>), GIADDR_OFF, Zeros(GIADDR_LEN))
             ELSE z
    IN  [msg EXCEPT !.m = Poke(msg.m, msg.data + off, hmac_md5(n, key))]

\* the last byte of the MAC altered
Flip(msg, off) ==
    [msg EXCEPT !.m[msg.data + off + HMAC_LENGTH] = (@ + 1) % 256]

OptHeader(protocol, algorithm, rdm, replay) ==
    <<protocol, algorithm, rdm>> \o replay

Trail == <<7, 7>>

\* (mp, mt, relay) of the messages: a relayed DHCPv4 ACK, an unrelayed
\* DHCPv4 REQUEST and a DHCPv6 REPLY
Carriers ==
    { [mp |-> 4, mt |-> DHCP_ACK,
       relay |-> [hops |-> 2, giaddr |-> <<10, 0, 0, 1>>]],
      [mp |-> 4, mt |-> DHCP_REQUEST,
       relay |-> [hops |-> 0, giaddr |-> <<0, 0, 0, 0>>]],
      [mp |-> 6, mt |-> DHCP6_REPLY,
       relay |-> [hops |-> 0, giaddr |-> <<0, 0, 0, 0>>]] }

\* message types that are the ACK or REPLY of the other protocol version
CrossCarriers ==
    { [mp |-> 4, mt |-> DHCP6_REPLY,
       relay |-> [hops |-> 0, giaddr |-> <<0, 0, 0, 0>>]],
      [mp |-> 6, mt |-> DHCP_ACK,
       relay |-> [hops |-> 0, giaddr |-> <<0, 0, 0, 0>>]] }

Carry(c, opt) == MkMsg(c.mp, c.mt, c.relay, opt)

\* TOKEN: the option ends with the shared secret
TokenMsgs ==
    { Carry(c, OptHeader(AUTH_PROTO_TOKEN, AUTH_ALG_HMAC_MD5,
                         AUTH_RDM_MONOTONIC, r) \o k) :
        c \in Carriers, r \in Replays, k \in {KeyHi, <<104, 106>>, <<>>} }

\* DELAYED: secret id and MAC, and a variant with bytes after the MAC
DelayedOpt(alg, r, sid, tail) ==
    OptHeader(AUTH_PROTO_DELAYED, alg, AUTH_RDM_MONOTONIC, r)
        \o htonl(sid) \o Zeros(HMAC_LENGTH) \o tail

DelayedMsgs ==
    { Sign(Carry(c, DelayedOpt(AUTH_ALG_HMAC_MD5, r, x.sid, <<>>)),
           3 + SIZEOF_REPLAY + SIZEOF_SECRETID, HMAC_LENGTH, x.key) :
        c \in Carriers, r \in Replays,
        x \in { [sid |-> 42, key |-> KeyB], [sid |-> 42, key |-> KeyA],
                [sid |-> 7, key |-> KeyE], [sid |-> 5, key |-> KeyB] } }
    \cup
    { Flip(Sign(Carry(c, DelayedOpt(AUTH_ALG_HMAC_MD5, r, 42, <<>>)),
                3 + SIZEOF_REPLAY + SIZEOF_SECRETID, HMAC_LENGTH, KeyB),
           3 + SIZEOF_REPLAY + SIZEOF_SECRETID) :
        c \in Carriers, r \in Replays }
    \cup
    { Sign(Carry(c, DelayedOpt(AUTH_ALG_HMAC_MD5, r, 42, Trail)),
           3 + SIZEOF_REPLAY + SIZEOF_SECRETID, HMAC_LENGTH + Len(Trail), KeyB) :
        c \in Carriers, r \in Replays }
    \cup
    { Sign(Carry(c, DelayedOpt(2, r, 42, <<>>)),
           3 + SIZEOF_REPLAY + SIZEOF_SECRETID, HMAC_LENGTH, KeyB) :
        c \in Carriers, r \in Replays }

\* DELAYED_REALM: realm, secret id and MAC
RealmMsgs ==
    { Sign(Carry(c, OptHeader(AUTH_PROTO_DELAYEDREALM, AUTH_ALG_HMAC_MD5,
                              AUTH_RDM_MONOTONIC, r)
                    \o x.realm \o htonl(42) \o Zeros(HMAC_LENGTH)),
           3 + SIZEOF_REPLAY + Len(x.realm) + SIZEOF_SECRETID, HMAC_LENGTH,
           x.key) :
        c \in Carriers, r \in Replays,
        x \in { [realm |-> RealmAc, key |-> KeyA],
                [realm |-> RealmAc, key |-> KeyB],
                [realm |-> <<>>, key |-> KeyB],
                [realm |-> RealmZz, key |-> KeyA] } }

\* RECONF_KEY: a type byte, then the key (type 1) or the MAC (type 2)
ReconfOpt(r, type, body) ==
    OptHeader(AUTH_PROTO_RECONFKEY, AUTH_ALG_HMAC_MD5, AUTH_RDM_MONOTONIC, r)
        \o <<type>> \o body

ReconfMsgs ==
    { Carry(c, ReconfOpt(r, 1, k)) :
        c \in Carriers, r \in Replays, k \in {ReconfKey1, ReconfKey2} }
    \cup
    { Sign(Carry(c, ReconfOpt(r, 2, Zeros(HMAC_LENGTH))),
           3 + SIZEOF_REPLAY + 1, HMAC_LENGTH, k) :
        c \in Carriers, r \in Replays, k \in {ReconfKey1, ReconfKey2} }
    \cup
    { Flip(Sign(Carry(c, ReconfOpt(r, 2, Zeros(HMAC_LENGTH))),
                3 + SIZEOF_REPLAY + 1, HMAC_LENGTH, ReconfKey1),
           3 + SIZEOF_REPLAY + 1) :
        c \in Carriers, r \in Replays }
    \cup
    { Carry(c, ReconfOpt(r, 3, ReconfKey1)) : c \in Carriers, r \in {htonll(U64(1))} }
    \cup
    { Carry(c, ReconfOpt(r, 1, <<1, 2, 3>>)) : c \in Carriers, r \in {htonll(U64(1))} }
    \cup
    { Carry(c, ReconfOpt(htonll(U64(1)), 1, ReconfKey1)) : c \in CrossCarriers }

\* options that fail the early checks: too short, a slice that leaves the
\* message, a short DELAYED and DELAYED_REALM payload, other header bytes
OddMsgs ==
    LET c == CHOOSE x \in Carriers : x.mp = 6 /\ x.mt = DHCP6_REPLY
        r == htonll(U64(1))
    IN  { Carry(c, <<AUTH_PROTO_TOKEN, AUTH_ALG_HMAC_MD5, AUTH_RDM_MONOTONIC, 0, 0>>),
          [Carry(c, OptHeader(AUTH_PROTO_TOKEN, AUTH_ALG_HMAC_MD5,
                              AUTH_RDM_MONOTONIC, r) \o KeyHi)
              EXCEPT !.dlen = @ + 4],
          [Carry(c, OptHeader(AUTH_PROTO_TOKEN, AUTH_ALG_HMAC_MD5,
                              AUTH_RDM_MONOTONIC, r) \o KeyHi)
              EXCEPT !.data = -1],
          Carry(c, OptHeader(AUTH_PROTO_DELAYED, AUTH_ALG_HMAC_MD5,
                             AUTH_RDM_MONOTONIC, r) \o htonl(42)),
          Carry(c, OptHeader(AUTH_PROTO_DELAYEDREALM, AUTH_ALG_HMAC_MD5,
                             AUTH_RDM_MONOTONIC, r) \o htonl(42)),
          Carry(c, OptHeader(AUTH_PROTO_TOKEN, AUTH_ALG_HMAC_MD5, 1, r) \o KeyHi),
          Carry(c, OptHeader(AUTH_PROTO_TOKEN, 2, AUTH_RDM_MONOTONIC, r) \o KeyHi),
          Carry(c, OptHeader(9, AUTH_ALG_HMAC_MD5, AUTH_RDM_MONOTONIC, r) \o KeyHi) }

Msgs == TokenMsgs \cup DelayedMsgs \cup RealmMsgs \cup ReconfMsgs \cup OddMsgs

\* what a call meets in its environment at time now
Envs(now) ==
    { [now |-> now, timeFail |-> tf, failAt |-> fa, stack |-> st] :
        tf \in {FALSE}, fa \in {0}, st \in {Zeros(Len(Trail))} }
    \cup { [now |-> now, timeFail |-> TRUE, failAt |-> 0, stack |-> Zeros(Len(Trail))],
           [now |-> now, timeFail |-> FALSE, failAt |-> 1, stack |-> Zeros(Len(Trail))],
           [now |-> now, timeFail |-> FALSE, failAt |-> 2, stack |-> Zeros(Len(Trail))],
           [now |-> now, timeFail |-> FALSE, failAt |-> 0, stack |-> Trail] }

(***************************************************************************)
(* The validator as a state machine: one authstate, one configured auth,   *)
(* messages arriving one after the other.                                  *)
(***************************************************************************)
VARIABLES state, auth, now, call, fs, lives, rets, pc, lock, loc, enc

vars == <<state, auth, now, call, fs, lives, rets, pc, lock, loc, enc>>

InitState == [token |-> NULLPTR, replay |-> U64Zero, reconf |-> <<>>]

Init ==
    /\ state = InitState
    /\ auth \in Policies
    /\ now = 1
    /\ call = <<>>
    /\ fs = [exists |-> FALSE, text |-> <<>>]
    /\ lives = 0
    /\ rets = <<>>
    /\ pc = <<>>
    /\ lock = 0
    /\ loc = <<>>
    /\ enc = <<>>

\* a message arrives and is validated; call holds the call and its result
\* until the caller has taken it
Validate ==
    /\ call = <<>>
    /\ \E msg \in Msgs, env \in Envs(now) :
        LET res == dhcp_auth_validate(state, auth, msg.m, msg.mp, msg.mt,
                                      msg.data, msg.dlen, env)
        IN  /\ state' = res.state
            /\ call' = <<[msg |-> msg, env |-> env, pre |-> state, res |-> res]>>
            /\ UNCHANGED <<auth, now, fs, lives, rets, pc, lock, loc, enc>>

\* the caller takes the result
Return ==
    /\ call # <<>>
    /\ call' = <<>>
    /\ UNCHANGED <<state, auth, now, fs, lives, rets, pc, lock, loc, enc>>

\* time passes
Tick ==
    /\ call = <<>>
    /\ now < MaxNow
    /\ now' = now + 1
    /\ UNCHANGED <<state, auth, call, fs, lives, rets, pc, lock, loc, enc>>

Next == Validate \/ Return \/ Tick

Spec == Init /\ [][Next]_vars

(***************************************************************************)
(* Reading a message independently of the validator, for the properties    *)
(***************************************************************************)
WellFramed(msg) ==
    /\ msg.dlen >= 3 + SIZEOF_REPLAY
    /\ msg.data >= 0
    /\ msg.data + msg.dlen <= Len(msg.m)

OptProtocol(msg) == msg.m[msg.data + 1]
WireReplay(msg) == [i \in 1..SIZEOF_REPLAY |-> msg.m[msg.data + 3 + i]]
Payload(msg) == msg.dlen - 3 - SIZEOF_REPLAY

\* a < b for two 8-byte big-endian values
U64Lt(a, b) ==
    \E i \in 1..SIZEOF_REPLAY : a[i] < b[i] /\ \A j \in 1..(i - 1) : a[j] = b[j]

HeaderOk(a, msg) ==
    /\ WellFramed(msg)
    /\ IF a.send
       THEN /\ msg.m[msg.data + 1] = a.protocol
            /\ msg.m[msg.data + 2] = a.algorithm
            /\ msg.m[msg.data + 3] = a.rdm
       ELSE msg.m[msg.data + 1] = AUTH_PROTO_RECONFKEY

IsReconf(msg, type) ==
    /\ WellFramed(msg)
    /\ OptProtocol(msg) = AUTH_PROTO_RECONFKEY
    /\ Payload(msg) = 1 + RECONF_KEY_LEN
    /\ msg.m[msg.data + 3 + SIZEOF_REPLAY + 1] = type

IsKeyDelivery(msg) == IsReconf(msg, 1)

\* the token a message names: by secret id and realm in the configured
\* list, or the reconfigure token for a type 2 message
StoreNamed(tokens, sid, realm) ==
    LET hit(i) == tokens[i].secretid = sid /\ tokens[i].realm = realm
    IN  IF \E i \in 1..Len(tokens) : hit(i)
        THEN StorePtr(CHOOSE i \in 1..Len(tokens) :
                         hit(i) /\ \A j \in 1..(i - 1) : ~hit(j))
        ELSE NULLPTR

NamedToken(st, a, msg) ==
    LET p == OptProtocol(msg)
        o == msg.data + 3 + SIZEOF_REPLAY
        n == Payload(msg)
    IN  IF ~WellFramed(msg) THEN NULLPTR
        ELSE IF p = AUTH_PROTO_TOKEN THEN StoreNamed(a.tokens, 0, <<>>)
        ELSE IF p = AUTH_PROTO_DELAYED /\ n >= SIZEOF_SECRETID + HMAC_LENGTH
        THEN StoreNamed(a.tokens,
                 ntohl([i \in 1..SIZEOF_SECRETID |-> msg.m[o + i]]), <<>>)
        ELSE IF p = AUTH_PROTO_DELAYEDREALM /\ n >= SIZEOF_SECRETID + HMAC_LENGTH
        THEN StoreNamed(a.tokens,
                 ntohl([i \in 1..SIZEOF_SECRETID |->
                           msg.m[o + n - HMAC_LENGTH - SIZEOF_SECRETID + i]]),
                 [i \in 1..(n - HMAC_LENGTH - SIZEOF_SECRETID) |-> msg.m[o + i]])
        ELSE IF IsReconf(msg, 2) /\ st.reconf # <<>> THEN RECONFPTR
        ELSE NULLPTR

\* the named token can be used at the time of the call
Alive(st, a, p, env) ==
    p.kind = "store" =>
        \/ a.tokens[p.ix].expire = 0
        \/ ~env.timeFail /\ a.tokens[p.ix].expire >= env.now

\* offset in m of the first byte of the MAC
MacOff(msg) ==
    IF OptProtocol(msg) = AUTH_PROTO_DELAYED
    THEN msg.data + 3 + SIZEOF_REPLAY + SIZEOF_SECRETID
    ELSE msg.data + msg.dlen - HMAC_LENGTH

\* HMAC-MD5 under key of the message with everything from the MAC to the
\* end of the option zeroed and, for DHCPv4, hops and giaddr zeroed
ExpectedMac(msg, key) ==
    hmac_md5([i \in 1..Len(msg.m) |->
                 IF i > MacOff(msg) /\ i <= msg.data + msg.dlen THEN 0
                 ELSE IF msg.mp = 4 /\ (i = 4 \/ i \in 25..28) THEN 0
                 ELSE msg.m[i]], key)

ReceivedMac(msg) == [i \in 1..HMAC_LENGTH |-> msg.m[MacOff(msg) + i]]

\* the message carries a correct authenticator for token tok
Authentic(msg, tok) ==
    IF OptProtocol(msg) = AUTH_PROTO_TOKEN
    THEN [i \in 1..Payload(msg) |-> msg.m[msg.data + 3 + SIZEOF_REPLAY + i]] = tok.key
    ELSE ReceivedMac(msg) = ExpectedMac(msg, tok.key)

\* the MAC is the last thing in the option
MacEndsOption(msg) ==
    OptProtocol(msg) = AUTH_PROTO_TOKEN
        \/ MacOff(msg) + HMAC_LENGTH = msg.data + msg.dlen

Denied(c) == c.res = Err(c.pre, "EPERM")

(***************************************************************************)
(* Properties of dhcp_auth_validate                                        *)
(***************************************************************************)

\* C1: once state.token is pinned, state.replay never decreases and every
\* well-formed message whose replay value is less than or equal to
\* state.replay is rejected.
C1_ReplayNeverDecreases ==
    \A i \in 1..Len(call) :
        LET c == call[i] IN
        c.pre.token # NULLPTR =>
            /\ ~U64Lt(c.res.state.replay, c.pre.replay)
            /\ (HeaderOk(auth, c.msg)
                    /\ ~U64Lt(c.pre.replay, WireReplay(c.msg))
                  => c.res.ret = NULLPTR)

\* C2: once state.token is pinned no call re-assigns it, and a message
\* that names another usable token is denied and leaves the state as it was,
\* whatever its authenticator and replay value.
C2_TokenPinned ==
    \A i \in 1..Len(call) :
        LET c == call[i]
            t2 == NamedToken(c.pre, auth, c.msg)
        IN  c.pre.token # NULLPTR =>
                /\ c.res.state.token = c.pre.token
                /\ (HeaderOk(auth, c.msg) /\ t2 # NULLPTR /\ t2 # c.pre.token
                        /\ Alive(c.pre, auth, t2, c.env)
                      => Denied(c))

\* C2 witness: with a token pinned, a correctly authenticated message with
\* a fresh replay value that names another token has been denied.
C2_Witness ==
    \E i \in 1..Len(call) :
        LET c == call[i]
            t2 == NamedToken(c.pre, auth, c.msg)
        IN  /\ c.pre.token # NULLPTR
            /\ HeaderOk(auth, c.msg)
            /\ t2 # NULLPTR /\ t2 # c.pre.token
            /\ Alive(c.pre, auth, t2, c.env)
            /\ Authentic(c.msg, Deref(c.pre, auth, t2))
            /\ U64Lt(c.pre.replay, WireReplay(c.msg))
            /\ Denied(c)

\* C3: a call that returns a token, other than a type 1 key delivery,
\* returns one for which the message carries a correct authenticator; a
\* message whose MAC was made under another key than that of the token it
\* names, or altered, is denied.
C3_Soundness ==
    \A i \in 1..Len(call) :
        LET c == call[i]
            t == NamedToken(c.pre, auth, c.msg)
        IN  /\ (c.res.ret # NULLPTR /\ ~IsKeyDelivery(c.msg)
                  => Authentic(c.msg, Deref(c.res.state, auth, c.res.ret)))
            /\ (/\ HeaderOk(auth, c.msg)
                /\ t # NULLPTR
                /\ Alive(c.pre, auth, t, c.env)
                /\ ~Authentic(c.msg, Deref(c.pre, auth, t))
                /\ c.env.failAt # 1
                /\ c.msg.m[c.msg.data + 2] = AUTH_ALG_HMAC_MD5
                => Denied(c))

\* C3 witness: a DELAYED_REALM message has been accepted for the token of
\* its realm, on a relayed DHCPv4 message.
C3_Witness ==
    \E i \in 1..Len(call) :
        LET c == call[i] IN
        /\ c.res.ret = StorePtr(2)
        /\ OptProtocol(c.msg) = AUTH_PROTO_DELAYEDREALM
        /\ c.msg.mp = 4 /\ c.msg.m[HWOPCOUNT_OFF + 1] # 0
        /\ Authentic(c.msg, auth.tokens[2])
        /\ ~Authentic(c.msg, auth.tokens[3])

\* C4: a call that returns an error leaves token, replay and reconf as
\* they were.
C4_ErrorLeavesState ==
    \A i \in 1..Len(call) :
        call[i].res.ret = NULLPTR => call[i].res.state = call[i].pre

\* C4 witness: a key delivery whose second allocation failed has returned
\* an error.
C4_Witness ==
    \E i \in 1..Len(call) :
        LET c == call[i] IN
        /\ IsKeyDelivery(c.msg) /\ HeaderOk(auth, c.msg)
        /\ c.pre.reconf = <<>>
        /\ c.env.failAt = 2
        /\ c.res.ret = NULLPTR /\ c.res.errno = "ENOMEM"

\* C5 as stated: after any successful call, the same message validated
\* again on the resulting state is denied.
C5_Original ==
    \A i \in 1..Len(call) :
        LET c == call[i] IN
        c.res.ret # NULLPTR =>
            \A env \in Envs(now) :
                dhcp_auth_validate(state, auth, c.msg.m, c.msg.mp, c.msg.mt,
                                   c.msg.data, c.msg.dlen, env)
                    = Err(state, "EPERM")

\* C5 amended: after a successful call other than a type 1 key delivery the
\* same message validated again is denied; and with a token pinned, a
\* message that names it, ends with a correct authenticator and has a
\* greater replay value is accepted and its replay value recorded, when the
\* token has not expired and the allocation of the copy succeeds.
C5_ReplayRejection ==
    \A i \in 1..Len(call) :
        LET c == call[i] IN
        /\ (c.res.ret # NULLPTR /\ ~IsKeyDelivery(c.msg) =>
                \A env \in Envs(now) :
                    dhcp_auth_validate(state, auth, c.msg.m, c.msg.mp, c.msg.mt,
                                       c.msg.data, c.msg.dlen, env)
                        = Err(state, "EPERM"))
        /\ (/\ c.pre.token # NULLPTR
            /\ HeaderOk(auth, c.msg)
            /\ NamedToken(c.pre, auth, c.msg) = c.pre.token
            /\ Alive(c.pre, auth, c.pre.token, c.env)
            /\ MacEndsOption(c.msg)
            /\ Authentic(c.msg, Deref(c.pre, auth, c.pre.token))
            /\ U64Lt(c.pre.replay, WireReplay(c.msg))
            /\ (OptProtocol(c.msg) # AUTH_PROTO_TOKEN => c.env.failAt # 1)
            /\ c.msg.m[c.msg.data + 2] = AUTH_ALG_HMAC_MD5
            => /\ c.res.ret = c.pre.token
               /\ c.res.state.replay = WireReplay(c.msg))

\* C5 witness: with a token pinned, a message with a greater replay value
\* has been accepted for it, and its own replay is now refused.
C5_Witness ==
    \E i \in 1..Len(call) :
        LET c == call[i] IN
        /\ c.pre.token # NULLPTR
        /\ c.res.ret = c.pre.token
        /\ U64Lt(c.pre.replay, WireReplay(c.msg))
        /\ dhcp_auth_validate(state, auth, c.msg.m, c.msg.mp, c.msg.mt,
                              c.msg.data, c.msg.dlen, c.env)
              = Err(state, "EPERM")

\* the message with other values in hops and giaddr
WithRelay(msg, hops, giaddr) ==
    [msg EXCEPT !.m = [i \in 1..Len(msg.m) |->
                          IF i = HWOPCOUNT_OFF + 1 THEN hops
                          ELSE IF i > GIADDR_OFF /\ i <= GIADDR_OFF + GIADDR_LEN
                          THEN giaddr[i - GIADDR_OFF]
                          ELSE msg.m[i]]]

AltRelays ==
    { <<0, <<0, 0, 0, 0>> >>, <<2, <<10, 0, 0, 1>> >>, <<255, <<255, 255, 255, 255>> >>,
      <<0, <<10, 0, 0, 1>> >>, <<7, <<0, 0, 0, 0>> >> }

\* C9: for DHCPv4 the result of a call, returned token or error and the
\* state left, is the same for every value of hops and giaddr in the
\* message.
C9_RelayFieldsIgnored ==
    \A i \in 1..Len(call) :
        LET c == call[i] IN
        c.msg.mp = 4 =>
            \A alt \in AltRelays :
                LET m2 == WithRelay(c.msg, alt[1], alt[2]) IN
                dhcp_auth_validate(c.pre, auth, m2.m, m2.mp, m2.mt,
                                   m2.data, m2.dlen, c.env) = c.res

\* C9 witness: a DHCPv4 message with non-zero hops and giaddr has been
\* accepted on its MAC while a token was already pinned.
C9_Witness ==
    \E i \in 1..Len(call) :
        LET c == call[i] IN
        /\ c.msg.mp = 4
        /\ c.msg.m[HWOPCOUNT_OFF + 1] # 0
        /\ c.msg.m[GIADDR_OFF + 1] # 0
        /\ OptProtocol(c.msg) = AUTH_PROTO_DELAYED
        /\ c.pre.token # NULLPTR
        /\ c.res.ret = c.pre.token

\* the three header bytes of the option equal those of the policy
HeaderEqualsPolicy(a, msg) ==
    /\ msg.m[msg.data + 1] = a.protocol
    /\ msg.m[msg.data + 2] = a.algorithm
    /\ msg.m[msg.data + 3] = a.rdm

\* C11: for an option that is long enough and lies within the message, a
\* policy without SEND rejects every protocol byte other than RECONF_KEY as
\* malformed (EINVAL), a policy with SEND rejects a protocol, algorithm or
\* rdm byte that differs from its own as denied (EPERM), and a token is
\* returned only when SEND is clear and the protocol is RECONF_KEY or SEND
\* is set and the three bytes equal the policy's.
C11_PolicyMatch ==
    \A i \in 1..Len(call) :
        LET c == call[i] IN
        /\ (WellFramed(c.msg) /\ ~auth.send
                /\ OptProtocol(c.msg) # AUTH_PROTO_RECONFKEY
              => c.res = Err(c.pre, "EINVAL"))
        /\ (WellFramed(c.msg) /\ auth.send /\ ~HeaderEqualsPolicy(auth, c.msg)
              => c.res = Err(c.pre, "EPERM"))
        /\ (c.res.ret # NULLPTR
              => /\ WellFramed(c.msg)
                 /\ \/ ~auth.send /\ OptProtocol(c.msg) = AUTH_PROTO_RECONFKEY
                    \/ auth.send /\ HeaderEqualsPolicy(auth, c.msg))

\* C11 witness: a policy without SEND has rejected as malformed a TOKEN
\* message that carries the key of the token it names.
C11_Witness ==
    \E i \in 1..Len(call) :
        LET c == call[i] IN
        /\ ~auth.send
        /\ WellFramed(c.msg)
        /\ OptProtocol(c.msg) = AUTH_PROTO_TOKEN
        /\ Authentic(c.msg, auth.tokens[1])
        /\ c.res = Err(c.pre, "EINVAL")

\* the message type may deliver a reconfigure key
DeliveryType(msg) ==
    \/ msg.mp = 4 /\ msg.mt = DHCP_ACK
    \/ msg.mp = 6 /\ msg.mt = DHCP6_REPLY

\* the option passes the header and replay tests that come before the
\* protocol is looked at
ReachesProtocol(c) ==
    /\ HeaderOk(auth, c.msg)
    /\ c.pre.token = NULLPTR \/ WireReplay(c.msg) # c.pre.replay

\* the 16 bytes after the type byte of a RECONF_KEY option
ReconfPayload(msg) ==
    [i \in 1..RECONF_KEY_LEN |-> msg.m[msg.data + 3 + SIZEOF_REPLAY + 1 + i]]

\* C15: no call changes state.reconf or returns a token for a type 1
\* RECONF_KEY option unless the message is a DHCPv4 ACK or a DHCPv6 REPLY;
\* there the key of the option is stored and state.reconf returned, in any
\* other message type the option is malformed (EINVAL); a type 2 option is
\* rejected while state.reconf is unset, and any other type is malformed.
C15_KeyDelivery ==
    \A i \in 1..Len(call) :
        LET c == call[i] IN
        /\ (c.res.state.reconf # c.pre.reconf
              => IsKeyDelivery(c.msg) /\ DeliveryType(c.msg))
        /\ (IsKeyDelivery(c.msg) /\ c.res.ret # NULLPTR => DeliveryType(c.msg))
        /\ (IsKeyDelivery(c.msg) /\ ReachesProtocol(c) /\ ~DeliveryType(c.msg)
              => c.res = Err(c.pre, "EINVAL"))
        /\ (IsKeyDelivery(c.msg) /\ ReachesProtocol(c) /\ DeliveryType(c.msg)
                /\ (c.pre.reconf # <<>> \/ c.env.failAt \notin {1, 2})
              => /\ c.res.ret = RECONFPTR
                 /\ c.res.state.reconf[1].key = ReconfPayload(c.msg)
                 /\ c.res.state.token = c.pre.token
                 /\ c.res.state.replay = c.pre.replay)
        /\ (IsReconf(c.msg, 2) /\ c.pre.reconf = <<>> => c.res.ret = NULLPTR)
        /\ (IsReconf(c.msg, 2) /\ ReachesProtocol(c) /\ c.pre.reconf = <<>>
              => c.res = Err(c.pre, "ENOENT"))
        /\ (/\ WellFramed(c.msg)
            /\ OptProtocol(c.msg) = AUTH_PROTO_RECONFKEY
            /\ Payload(c.msg) = 1 + RECONF_KEY_LEN
            /\ c.msg.m[c.msg.data + 3 + SIZEOF_REPLAY + 1] \notin {1, 2}
            /\ ReachesProtocol(c)
            => c.res = Err(c.pre, "EINVAL"))

\* C15 witness: with a reconfigure key held, a type 1 option with another
\* key in a DHCPv4 REQUEST has been rejected as malformed.
C15_Witness ==
    \E i \in 1..Len(call) :
        LET c == call[i] IN
        /\ IsKeyDelivery(c.msg) /\ ReachesProtocol(c)
        /\ c.msg.mp = 4 /\ c.msg.mt = DHCP_REQUEST
        /\ c.pre.reconf # <<>>
        /\ c.pre.reconf[1].key # ReconfPayload(c.msg)
        /\ c.res = Err(c.pre, "EINVAL")

\* C19: once state.token is pinned no call changes the key of the token
\* it points to, the key against which later messages are verified.
C19_PinnedKeyFixed ==
    \A i \in 1..Len(call) :
        LET c == call[i] IN
        c.pre.token # NULLPTR =>
            Deref(c.res.state, auth, c.pre.token).key
                = Deref(c.pre, auth, c.pre.token).key

(***************************************************************************)
(* get_next_rdm_monotonic, src/auth.c:302-347                              *)
(*   fs : the file RDM_MONOFILE, [exists, text], text a sequence of        *)
(*        characters                                                       *)
(*   lr : the statics [last_rdm, last_rdm_set]                             *)
(* The counter is a uint64_t, held as its 8 bytes most significant first.  *)
(***************************************************************************)
HexChars == <<"0", "1", "2", "3", "4", "5", "6", "7", "8", "9",
              "a", "b", "c", "d", "e", "f">>

\* the decimal digits of v, none for 0
RECURSIVE DecDigits(_)
DecDigits(v) ==
    IF v = U64Zero THEN <<>>
    ELSE DecDigits(U64Div10(v)) \o <<U64Rem10(v, SIZEOF_REPLAY)>>

\* what "%016" PRIu64 prints for v: its decimal digits, padded with zeros
\* on the left to 16 characters
PadDigits(v) ==
    LET d == DecDigits(v)
    IN  IF Len(d) < 16 THEN Zeros(16 - Len(d)) \o d ELSE d

\* fprintf(fp, "0x%016" PRIu64 "\n", rdm): the characters written
Format(v) ==
    LET d == PadDigits(v)
    IN  <<"0", "x">> \o [i \in 1..Len(d) |-> HexChars[d[i] + 1]] \o <<"\n">>

\* get_line (common.c of the repository, not part of the sources at hand):
\* the first line without its newline, <<>> for NULL when there is none
get_line(text) ==
    IF text = <<>> THEN <<>>
    ELSE LET nl == {i \in 1..Len(text) : text[i] = "\n"}
             end == IF nl = {} THEN Len(text) + 1
                    ELSE CHOOSE i \in nl : \A j \in nl : i <= j
         IN  IF end = 1 THEN <<>> ELSE <<SubSeq(text, 1, end - 1)>>

UpperChars == <<"0", "1", "2", "3", "4", "5", "6", "7", "8", "9",
                "A", "B", "C", "D", "E", "F">>

\* the characters isspace() accepts: space, \t, \n, \v (written as the
\* character itself, code 11), \f and \r
Blanks == {" ", "\t", "\n", "", "\f", "\r"}

DigitOf(c) == CHOOSE d \in 0..15 : HexChars[d + 1] = c \/ UpperChars[d + 1] = c
IsDigit(c, base) ==
    \E d \in 0..(base - 1) : HexChars[d + 1] = c \/ UpperChars[d + 1] = c

\* the value of the longest prefix of line from position i on that consists
\* of digits of the base, continuing from acc; <<>> when it does not fit in
\* 64 bits
RECURSIVE ParseDigits(_, _, _, _)
ParseDigits(line, i, base, acc) ==
    IF i > Len(line) \/ ~IsDigit(line[i], base) THEN acc
    ELSE IF U64Wraps(acc, base, DigitOf(line[i])) THEN <<>>
    ELSE ParseDigits(line, i + 1, base, U64MulAdd(acc, base, DigitOf(line[i])))

\* the same, a value that does not fit being ULLONG_MAX
ParseFrom(line, i, base, acc) ==
    LET v == ParseDigits(line, i, base, acc)
    IN  IF v = <<>> THEN U64Max ELSE v

\* the position of the first character of line from i on that is not white
\* space
RECURSIVE SkipBlanks(_, _)
SkipBlanks(line, i) ==
    IF i <= Len(line) /\ line[i] \in Blanks THEN SkipBlanks(line, i + 1) ELSE i

\* the digits of strtoull from position i on: a 0x or 0X prefix before a
\* hexadecimal digit selects base 16, a leading 0 base 8
Magnitude(line, i) ==
    IF i + 2 <= Len(line) /\ line[i] = "0" /\ line[i + 1] \in {"x", "X"}
          /\ IsDigit(line[i + 2], 16)
    THEN ParseFrom(line, i + 2, 16, U64Zero)
    ELSE IF i <= Len(line) /\ line[i] = "0" THEN ParseFrom(line, i, 8, U64Zero)
    ELSE ParseFrom(line, i, 10, U64Zero)

\* the digits from position i on do not fit in 64 bits
Overflows(line, i) ==
    IF i + 2 <= Len(line) /\ line[i] = "0" /\ line[i + 1] \in {"x", "X"}
          /\ IsDigit(line[i + 2], 16)
    THEN ParseDigits(line, i + 2, 16, U64Zero) = <<>>
    ELSE IF i <= Len(line) /\ line[i] = "0"
    THEN ParseDigits(line, i, 8, U64Zero) = <<>>
    ELSE ParseDigits(line, i, 10, U64Zero) = <<>>

\* strtoull(line, &ep, 0): white space is skipped, a sign taken, and the
\* value after a minus sign negated in uint64_t arithmetic unless it did
\* not fit
strtoull(line) ==
    LET i == SkipBlanks(line, 1)
        signed == i <= Len(line) /\ line[i] \in {"+", "-"}
        v == Magnitude(line, IF signed THEN i + 1 ELSE i)
    IN  IF signed /\ line[i] = "-" /\ ~Overflows(line, i + 1)
        THEN U64Sub(U64Zero, v)
        ELSE v

\* what a call can meet: no failure, fopen "r+" failing with an errno other
\* than ENOENT, fopen "w" failing, get_line returning NULL, fseek,
\* ftruncate or fprintf failing, and the write made by fflush (and again by
\* fclose) failing
IoScenarios ==
    {"ok", "open", "create", "read", "fseek", "ftruncate", "fprintf", "fflush"}

\* lines 315 and 318: return ++last_rdm
BumpLast(fsv, lrv) ==
    [rdm |-> U64Inc(lrv.last_rdm), fs |-> fsv,
     lr |-> [lrv EXCEPT !.last_rdm = U64Inc(lrv.last_rdm)]]

\* lines 335-339
Fallback(fsv, rdm, lrv) ==
    IF ~lrv.last_rdm_set
    THEN [rdm |-> rdm, fs |-> fsv,
          lr |-> [last_rdm |-> rdm, last_rdm_set |-> TRUE]]
    ELSE BumpLast(fsv, lrv)

\* lines 330-346: increment and write back; an fprintf that writes more
\* than 19 characters has written them and is taken for a failure; the
\* characters reach the file in fflush (line 342), whose result is ignored
Store(fsv, rdm0, lrv, io) ==
    LET rdm == U64Inc(rdm0) IN
    IF io = "fseek" \/ io = "ftruncate" THEN Fallback(fsv, rdm, lrv)
    ELSE IF io = "fprintf" THEN Fallback([fsv EXCEPT !.text = <<>>], rdm, lrv)
    ELSE LET written == IF io = "fflush" THEN <<>> ELSE Format(rdm) IN
         IF Len(Format(rdm)) # 19
         THEN Fallback([fsv EXCEPT !.text = written], rdm, lrv)
         ELSE [rdm |-> rdm, fs |-> [fsv EXCEPT !.text = written], lr |-> lrv]

\* lines 321-328: the value read from the open file
ReadRdm(fsv, io) ==
    LET line == get_line(fsv.text) IN
    IF line = <<>> \/ io = "read" THEN U64Zero ELSE strtoull(line[1])

get_next_rdm_monotonic(fsv, lrv, io) ==
    IF io = "open" THEN BumpLast(fsv, lrv)
    ELSE IF ~fsv.exists
    THEN IF io = "create" THEN BumpLast(fsv, lrv)
         ELSE Store([exists |-> TRUE, text |-> <<>>], U64Zero, lrv, io)
    ELSE Store(fsv, ReadRdm(fsv, io), lrv, io)

NoFile == [exists |-> FALSE, text |-> <<>>]
InitLr == [last_rdm |-> U64Zero, last_rdm_set |-> FALSE]

\* no authenticator is being validated: the state dhcp_auth_validate works on is at rest
Idle ==
    /\ state = InitState
    /\ auth = Policy(TRUE, AUTH_PROTO_TOKEN, AUTH_ALG_HMAC_MD5, AUTH_RDM_MONOTONIC)
    /\ now = 1
    /\ call = <<>>

(***************************************************************************)
(* get_next_rdm_monotonic one system call at a time, for processes that    *)
(* share the file.  pc[p] is where process p stands; loc[p] holds its      *)
(* locals (created: the file was opened with "w"; rdm; buf: what fprintf   *)
(* left in the stdio buffer), its statics lr = [last_rdm, last_rdm_set]    *)
(* and rets, the values its calls returned so far; lock is the holder of   *)
(* the flock, 0 when free.                                                 *)
(***************************************************************************)
Procs == {1, 2}

InitProc ==
    [created |-> FALSE, rdm |-> U64Zero, buf |-> <<>>, lr |-> InitLr,
     rets |-> <<>>]

\* a process whose call returns rdm with the statics lrv: the locals of the
\* call are gone
Returns(l, rdm, lrv) ==
    [InitProc EXCEPT !.lr = lrv, !.rets = Append(l.rets, rdm)]

LockFrame == UNCHANGED <<state, auth, now, call, lives, rets, enc>>

\* line 312: fopen(RDM_MONOFILE, "r+"), failing with ENOENT without a file
OpenRW(p) ==
    /\ pc[p] = "idle"
    /\ pc' = [pc EXCEPT ![p] = IF fs.exists THEN "flock" ELSE "create"]
    /\ loc' = [loc EXCEPT ![p].created = FALSE, ![p].buf = <<>>]
    /\ UNCHANGED <<fs, lock>>
    /\ LockFrame

\* lines 312-315: fopen "r+" fails with an errno other than ENOENT and the
\* call returns ++last_rdm
OpenFail(p) ==
    /\ pc[p] = "idle"
    /\ LET r == BumpLast(fs, loc[p].lr)
       IN  loc' = [loc EXCEPT ![p] = Returns(loc[p], r.rdm, r.lr)]
    /\ UNCHANGED <<fs, lock, pc>>
    /\ LockFrame

\* line 316: fopen(RDM_MONOFILE, "w") creates the file or truncates it
Create(p) ==
    /\ pc[p] = "create"
    /\ fs' = [exists |-> TRUE, text |-> <<>>]
    /\ loc' = [loc EXCEPT ![p].created = TRUE]
    /\ pc' = [pc EXCEPT ![p] = "flock"]
    /\ UNCHANGED lock
    /\ LockFrame

\* lines 316-318: fopen "w" fails and the call returns ++last_rdm
CreateFail(p) ==
    /\ pc[p] = "create"
    /\ LET r == BumpLast(fs, loc[p].lr)
       IN  loc' = [loc EXCEPT ![p] = Returns(loc[p], r.rdm, r.lr)]
    /\ pc' = [pc EXCEPT ![p] = "idle"]
    /\ UNCHANGED <<fs, lock>>
    /\ LockFrame

\* lines 319-320 and 322: flock(LOCK_EX) returns once the lock is free
Flock(p) ==
    /\ pc[p] = "flock"
    /\ lock = 0
    /\ lock' = p
    /\ loc' = [loc EXCEPT ![p].rdm = IF loc[p].created THEN U64Zero ELSE @]
    /\ pc' = [pc EXCEPT ![p] = IF loc[p].created THEN "write" ELSE "read"]
    /\ UNCHANGED fs
    /\ LockFrame

\* lines 319-320 and 322: flock fails and the call goes on without the lock
FlockFail(p) ==
    /\ pc[p] = "flock"
    /\ loc' = [loc EXCEPT ![p].rdm = IF loc[p].created THEN U64Zero ELSE @]
    /\ pc' = [pc EXCEPT ![p] = IF loc[p].created THEN "write" ELSE "read"]
    /\ UNCHANGED <<fs, lock>>
    /\ LockFrame

\* lines 323-327: get_line and strtoull
Read(p) ==
    /\ pc[p] = "read"
    /\ loc' = [loc EXCEPT ![p].rdm = ReadRdm(fs, "ok")]
    /\ pc' = [pc EXCEPT ![p] = "write"]
    /\ UNCHANGED <<fs, lock>>
    /\ LockFrame

\* lines 323-329: get_line fails to read and returns NULL
ReadNull(p) ==
    /\ pc[p] = "read"
    /\ loc' = [loc EXCEPT ![p].rdm = ReadRdm(fs, "read")]
    /\ pc' = [pc EXCEPT ![p] = "write"]
    /\ UNCHANGED <<fs, lock>>
    /\ LockFrame

\* lines 330-339: rdm++, fseek, ftruncate; fprintf fills the stdio buffer,
\* and a count other than 19 is taken for a failure
Truncate(p) ==
    /\ pc[p] = "write"
    /\ LET rdm == U64Inc(loc[p].rdm)
           r == IF Len(Format(rdm)) = 19
                THEN [rdm |-> rdm, fs |-> fs, lr |-> loc[p].lr]
                ELSE Fallback(fs, rdm, loc[p].lr)
       IN  loc' = [loc EXCEPT ![p].rdm = r.rdm, ![p].lr = r.lr,
                              ![p].buf = Format(rdm)]
    /\ fs' = [fs EXCEPT !.text = <<>>]
    /\ pc' = [pc EXCEPT ![p] = "flush"]
    /\ UNCHANGED lock
    /\ LockFrame

\* lines 330-339: fseek or ftruncate fails; the file keeps its text
SeekFail(p) ==
    /\ pc[p] = "write"
    /\ LET r == Fallback(fs, U64Inc(loc[p].rdm), loc[p].lr)
       IN  loc' = [loc EXCEPT ![p].rdm = r.rdm, ![p].lr = r.lr]
    /\ pc' = [pc EXCEPT ![p] = "flush"]
    /\ UNCHANGED <<fs, lock>>
    /\ LockFrame

\* lines 330-339: fprintf fails after the file was truncated
PrintfFail(p) ==
    /\ pc[p] = "write"
    /\ LET r == Fallback(fs, U64Inc(loc[p].rdm), loc[p].lr)
       IN  loc' = [loc EXCEPT ![p].rdm = r.rdm, ![p].lr = r.lr]
    /\ fs' = [fs EXCEPT !.text = <<>>]
    /\ pc' = [pc EXCEPT ![p] = "flush"]
    /\ UNCHANGED lock
    /\ LockFrame

\* the text of a file after buf was written at offset 0
WriteAt0(text, buf) == buf \o SubSeq(text, Len(buf) + 1, Len(text))

\* line 342: fflush writes the buffer at offset 0
Flush(p) ==
    /\ pc[p] = "flush"
    /\ fs' = [fs EXCEPT !.text = WriteAt0(@, loc[p].buf)]
    /\ loc' = [loc EXCEPT ![p].buf = <<>>]
    /\ pc' = [pc EXCEPT ![p] = "unlock"]
    /\ UNCHANGED lock
    /\ LockFrame

\* lines 342 and 345: the write of the buffer fails in fflush and again in
\* fclose; neither result is looked at
FlushFail(p) ==
    /\ pc[p] = "flush"
    /\ loc[p].buf # <<>>
    /\ loc' = [loc EXCEPT ![p].buf = <<>>]
    /\ pc' = [pc EXCEPT ![p] = "unlock"]
    /\ UNCHANGED <<fs, lock>>
    /\ LockFrame

\* lines 343-344: flock(LOCK_UN) if the lock was taken
Unlock(p) ==
    /\ pc[p] = "unlock"
    /\ lock' = IF lock = p THEN 0 ELSE lock
    /\ pc' = [pc EXCEPT ![p] = "close"]
    /\ UNCHANGED <<fs, loc>>
    /\ LockFrame

\* lines 345-346: fclose and return rdm
Close(p) ==
    /\ pc[p] = "close"
    /\ loc' = [loc EXCEPT ![p] = Returns(loc[p], loc[p].rdm, loc[p].lr)]
    /\ pc' = [pc EXCEPT ![p] = "idle"]
    /\ UNCHANGED <<fs, lock>>
    /\ LockFrame

\* a system call of process p that succeeds, after the first
Proceed(p) ==
    \/ Create(p) \/ Flock(p) \/ Read(p)
    \/ Truncate(p) \/ Flush(p) \/ Unlock(p) \/ Close(p)

\* a system call of process p that fails, after the first
Fails(p) ==
    \/ CreateFail(p) \/ FlockFail(p) \/ ReadNull(p)
    \/ SeekFail(p) \/ PrintfFail(p) \/ FlushFail(p)

(***************************************************************************)
(* Two processes calling get_next_rdm_monotonic on the same file; no call  *)
(* fails.                                                                  *)
(***************************************************************************)
MaxLockCalls == 3

InitLock ==
    /\ Idle
    /\ fs \in {NoFile, [exists |-> TRUE, text |-> Format(U64(5))]}
    /\ lives = 0
    /\ rets = <<>>
    /\ pc = [p \in Procs |-> "idle"]
    /\ lock = 0
    /\ loc = [p \in Procs |-> InitProc]
    /\ enc = <<>>

NextLock ==
    \E p \in Procs :
        \/ Len(loc[p].rets) < MaxLockCalls /\ OpenRW(p)
        \/ Proceed(p)

SpecLock == InitLock /\ [][NextLock]_vars

\* C7: two processes running get_next_rdm_monotonic on the same file never
\* return the same value.
C7_NoDuplicate ==
    \A p \in Procs : \A q \in Procs \ {p} :
        \A i \in 1..Len(loc[p].rets) : \A j \in 1..Len(loc[q].rets) :
            loc[p].rets[i] # loc[q].rets[j]

(***************************************************************************)
(* Two processes calling get_next_rdm_monotonic on the same file, any      *)
(* system call of which may fail.                                          *)
(***************************************************************************)
MaxCalls == 2

InitRdm == InitLock

NextRdm ==
    \E p \in Procs :
        \/ Len(loc[p].rets) < MaxCalls /\ (OpenRW(p) \/ OpenFail(p))
        \/ Proceed(p)
        \/ Fails(p)

SpecRdm == InitRdm /\ [][NextRdm]_vars

\* C6: within one process every value get_next_rdm_monotonic returns is
\* strictly greater than every value it returned before, whether or not
\* file steps fail.
C6_StrictlyIncreasing ==
    \A p \in Procs :
        \A i \in 1..Len(loc[p].rets) : \A j \in 1..(i - 1) :
            U64Lt(loc[p].rets[j], loc[p].rets[i])

\* the values returned so far by all processes
Returned == UNION {{loc[p].rets[i] : i \in 1..Len(loc[p].rets)} : p \in Procs}

\* the largest of the values vs
MaxReturned(vs) == CHOOSE v \in vs : \A w \in vs : ~U64Lt(v, w)

\* the value the next call would read from the file, 0 without a file
StoredValue(fsv) == IF fsv.exists THEN ReadRdm(fsv, "ok") ELSE U64Zero

\* C18: between calls the value held in the file, as the next call parses
\* it, is the largest value returned so far, whatever file steps failed in
\* the calls made.
C18_FileHoldsLargest ==
    ((\A p \in Procs : pc[p] = "idle") /\ Returned # {})
        => StoredValue(fs) = MaxReturned(Returned)

(***************************************************************************)
(* Process 1 calls get_next_rdm_monotonic again and again, one system call *)
(* at a time, and may end at any point, also inside a call; a new process  *)
(* takes its place.  Its statics start again from zero; the locals, the    *)
(* stdio buffer and the lock of the process that ended are gone; the file  *)
(* stays.  Another process calls get_next_rdm_monotonic on the same file.  *)
(* No system call fails.  loc[1].rets holds the values returned over all   *)
(* lifetimes of process 1 and lives the number of processes that ended.    *)
(***************************************************************************)
MaxLifeCalls == 12
MaxRestarts == 1

\* the calls another process makes meanwhile
MaxOtherCalls == 1

InitLife ==
    /\ Idle
    /\ fs = NoFile
    /\ lives = 0
    /\ rets = <<>>
    /\ pc = [p \in Procs |-> "idle"]
    /\ lock = 0
    /\ loc = [p \in Procs |-> InitProc]
    /\ enc = <<>>

\* process 1 ends, wherever it stands, and a new one starts
Restart ==
    /\ lives < MaxRestarts
    /\ lives' = lives + 1
    /\ pc' = [pc EXCEPT ![1] = "idle"]
    /\ loc' = [loc EXCEPT ![1] = [InitProc EXCEPT !.rets = loc[1].rets]]
    /\ lock' = IF lock = 1 THEN 0 ELSE lock
    /\ UNCHANGED <<state, auth, now, call, fs, rets, enc>>

NextLife ==
    \/ Len(loc[1].rets) < MaxLifeCalls /\ OpenRW(1)
    \/ Proceed(1)
    \/ Restart
    \/ Len(loc[2].rets) < MaxOtherCalls /\ OpenRW(2)
    \/ Proceed(2)

SpecLife == InitLife /\ [][NextLife]_vars

\* no other process has touched the file
Alone == pc[2] = "idle" /\ loc[2] = InitProc

\* C12: with no failing file step and no other process at the file the
\* values returned over all lifetimes of the process are strictly
\* increasing.
C12_IncreasingAcrossRestarts ==
    Alone =>
        \A i \in 1..Len(loc[1].rets) : \A j \in 1..(i - 1) :
            U64Lt(loc[1].rets[j], loc[1].rets[i])

\* "0x", the 16 hexadecimal digits of n padded with zeros, and a newline,
\* for 0 <= n < 2^28
HexText(n) ==
    <<"0", "x">>
      \o [i \in 1..16 |->
            IF i < 10 THEN "0"
            ELSE HexChars[((n \div (IF i = 16 THEN 1 ELSE IF i = 15 THEN 16
                                    ELSE IF i = 14 THEN 256 ELSE IF i = 13 THEN 4096
                                    ELSE IF i = 12 THEN 65536 ELSE IF i = 11 THEN 1048576
                                    ELSE 16777216)) % 16) + 1]]
      \o <<"\n">>

\* C13: from an absent file, with no failing file step, no other process
\* at the file and no restart, the n-th call returns n, and the file then
\* holds the 19 characters "0x", the 16 digits of n padded with zeros (read
\* as hexadecimal or as decimal) and a newline.
C13_NthCallReturnsN ==
    (Alone /\ lives = 0) =>
        /\ \A i \in 1..Len(loc[1].rets) : loc[1].rets[i] = U64(i)
        /\ (pc[1] = "idle" /\ loc[1].rets # <<>>) =>
              /\ Len(fs.text) = 19
              /\ \/ fs.text = HexText(Len(loc[1].rets))
                 \/ fs.text = Format(U64(Len(loc[1].rets)))

(***************************************************************************)
(* dhcp_auth_encode, src/auth.c:360-551                                    *)
(* t is the token pointer passed in (NULLPTR or a token of auth->tokens),  *)
(* dnull says that data is NULL (the size query), c is the replay counter  *)
(* [fs, lr, rdm] with rdm = <<>> until the call has drawn a value, and n   *)
(* is what get_next_rdm_monotonic returns and leaves behind when it is     *)
(* called on c.fs and c.lr under the file conditions of this call.         *)
(* The result holds the returned int, errno, the message buffer as the     *)
(* call leaves it, the number of bytes written past the end of the buffer  *)
(* and the counter.                                                        *)
(***************************************************************************)
EncRes(ret, e, m, over, c) ==
    [ret |-> ret, errno |-> e, m |-> m, over |-> over,
     fs |-> c.fs, lr |-> c.lr, rdm |-> c.rdm]

\* lines 371-389: the token used when the protocol is 0 and none is passed
SelectToken(a, t, env) ==
    IF a.protocol = 0 /\ t = NULLPTR
    THEN LET hits == {i \in 1..Len(a.tokens) :
                         a.tokens[i].secretid = 0 /\ Len(a.tokens[i].realm) = 0}
         IN  IF hits = {} THEN [t |-> NULLPTR, errno |-> "EINVAL"]
             ELSE LET i == CHOOSE x \in hits : \A y \in hits : x <= y IN
                  IF a.tokens[i].expire # 0 /\ env.timeFail
                  THEN [t |-> NULLPTR, errno |-> "ETIME"]
                  ELSE IF a.tokens[i].expire # 0 /\ a.tokens[i].expire < env.now
                  THEN [t |-> NULLPTR, errno |-> "EPERM"]
                  ELSE [t |-> StorePtr(i), errno |-> "0"]
    ELSE [t |-> t, errno |-> "0"]

\* lines 391-416
PolicySane(a) ==
    /\ a.protocol \in {AUTH_PROTO_TOKEN, AUTH_PROTO_DELAYED, AUTH_PROTO_DELAYEDREALM}
    /\ a.algorithm = AUTH_ALG_HMAC_MD5
    /\ a.rdm = AUTH_RDM_MONOTONIC

\* a size that leaves out the realm
SizeQuery_NoRealm(a, t) ==
    3 + SIZEOF_REPLAY
      + (IF a.protocol = AUTH_PROTO_TOKEN THEN Len(a.tokens[t.ix].key)
         ELSE IF t = NULLPTR THEN 0
         ELSE SIZEOF_SECRETID + HMAC_LENGTH)

\* lines 420-436: the size of the option
SizeQuery(a, t) ==
    3 + SIZEOF_REPLAY
      + (IF a.protocol = AUTH_PROTO_TOKEN THEN Len(a.tokens[t.ix].key)
         ELSE IF t = NULLPTR THEN 0
         ELSE (IF a.protocol = AUTH_PROTO_DELAYEDREALM
               THEN Len(a.tokens[t.ix].realm) ELSE 0)
              + SIZEOF_SECRETID + HMAC_LENGTH)

\* bytes of a write of n bytes at offset off that fall past the end of m
Overrun(m, off, n) == IF off + n > Len(m) THEN off + n - Len(m) ELSE 0

\* an encoder that computes the MAC over hops and giaddr as they are
EncodeZeroRelay_Skip(m, mp) == m

\* lines 519-526: hops and giaddr zeroed for the MAC
EncodeZeroRelay(m, mp) ==
    IF mp = 4
    THEN Poke(Poke(m, HWOPCOUNT_OFF, <<0>>), GIADDR_OFF, Zeros(GIADDR_LEN))
    ELSE m

\* lines 541-547: hops and giaddr put back from the saved values
EncodeRestoreRelay(m, mp, hops, giaddr) ==
    IF mp = 4
    THEN Poke(Poke(m, HWOPCOUNT_OFF, <<hops>>), GIADDR_OFF, giaddr)
    ELSE m

\* lines 516-550: the MAC over the message and its copy into the option
EncodeMac(tok, m, mp, d, dlen, c) ==
    LET m1 == Poke(m, d, Zeros(dlen))
        hops == m1[HWOPCOUNT_OFF + 1]
        giaddr == Slice(m1, GIADDR_OFF, GIADDR_LEN)
        m2 == EncodeZeroRelay(m1, mp)
        m3 == Poke(m2, d, hmac_md5(m2, tok.key))
        m4 == EncodeRestoreRelay(m3, mp, hops, giaddr)
    IN  EncRes(dlen - HMAC_LENGTH, "0", m4, Overrun(m, d, HMAC_LENGTH), c)

\* lines 502-514: the secret id
EncodeSecretId(tok, m, mp, d, dlen, c) ==
    IF dlen < SIZEOF_SECRETID THEN EncRes(-1, "ENOBUFS", m, 0, c)
    ELSE EncodeMac(tok, Poke(m, d, htonl(tok.secretid)), mp,
                   d + SIZEOF_SECRETID, dlen - SIZEOF_SECRETID, c)

\* lines 491-500: the realm
EncodeRealm(a, tok, m, mp, d, dlen, c) ==
    IF a.protocol = AUTH_PROTO_DELAYEDREALM
    THEN IF dlen < Len(tok.realm) THEN EncRes(-1, "ENOBUFS", m, 0, c)
         ELSE EncodeSecretId(tok, Poke(m, d, tok.realm), mp,
                             d + Len(tok.realm), dlen - Len(tok.realm), c)
    ELSE EncodeSecretId(tok, m, mp, d, dlen, c)

\* lines 467-489: after the header and the replay value
EncodeBody(a, t, m, mp, mt, d, dlen, c) ==
    IF a.protocol = AUTH_PROTO_TOKEN
    THEN IF t = NULLPTR THEN EncRes(-1, "EINVAL", m, 0, c)
         ELSE IF dlen < Len(a.tokens[t.ix].key) THEN EncRes(-1, "ENOBUFS", m, 0, c)
         ELSE EncRes(dlen - Len(a.tokens[t.ix].key), "0",
                     Poke(m, d, a.tokens[t.ix].key), 0, c)
    ELSE IF \/ mp = 4 /\ (mt = DHCP_DISCOVER \/ mt = DHCP_INFORM)
            \/ mp = 6 /\ (mt = DHCP6_SOLICIT \/ mt = DHCP6_INFORMATION_REQ)
    THEN EncRes(dlen, "0", m, 0, c)
    ELSE IF t = NULLPTR THEN EncRes(0, "0", m, 0, c)
    ELSE EncodeRealm(a, a.tokens[t.ix], m, mp, d, dlen, c)

\* lines 449-465: the three header bytes and the replay value
EncodeHeader(a, t, m, mp, mt, data, dlen, c, n) ==
    LET c1 == [fs |-> n.fs, lr |-> n.lr, rdm |-> <<n.rdm>>]
        m1 == Poke(Poke(m, data, <<a.protocol, a.algorithm, a.rdm>>),
                   data + 3, htonll(n.rdm))
    IN  EncodeBody(a, t, m1, mp, mt, data + 3 + SIZEOF_REPLAY,
                   dlen - 3 - SIZEOF_REPLAY, c1)

\* lines 371-447: what a call returns before line 455, <<>> for a call that
\* gets there
EncodeRefusal(a, t, m, dnull, data, dlen, c, env) ==
    LET sel == SelectToken(a, t, env) IN
    IF sel.errno # "0" THEN <<EncRes(-1, sel.errno, m, 0, c)>>
    ELSE IF ~PolicySane(a) THEN <<EncRes(-1, "ENOTSUP", m, 0, c)>>
    ELSE IF dnull THEN <<EncRes(SizeQuery(a, sel.t), "0", m, 0, c)>>
    ELSE IF dlen < 3 + SIZEOF_REPLAY THEN <<EncRes(-1, "ENOBUFS", m, 0, c)>>
    ELSE IF data < 0 \/ data > Len(m) \/ data + dlen > Len(m)
    THEN <<EncRes(-1, "ERANGE", m, 0, c)>>
    ELSE <<>>

\* an encoder that draws its replay value and then refuses the call
dhcp_auth_encode_DrawFirst(a, t, m, mp, mt, dnull, data, dlen, c, n, env) ==
    EncRes(-1, "ENOTSUP", m, 0, [fs |-> n.fs, lr |-> n.lr, rdm |-> <<n.rdm>>])

dhcp_auth_encode(a, t, m, mp, mt, dnull, data, dlen, c, n, env) ==
    LET r == EncodeRefusal(a, t, m, dnull, data, dlen, c, env) IN
    IF r # <<>> THEN r[1]
    ELSE EncodeHeader(a, SelectToken(a, t, env).t, m, mp, mt, data, dlen, c, n)

(***************************************************************************)
(* The encoder as a state machine: process 1 with the configured auth     *)
(* calls dhcp_auth_encode on outgoing messages.  A call that gets to line  *)
(* 455 runs get_next_rdm_monotonic one system call at a time, any of which *)
(* may fail, while another process calls get_next_rdm_monotonic on the     *)
(* same file; rets holds the values encoded so far.  What is encoded is    *)
(* chosen when the value has been drawn: nothing before line 455 changes   *)
(* anything the processes share.                                           *)
(***************************************************************************)
MaxEncodes == 1

\* (mp, mt, hops, giaddr) of the outgoing messages
EncFrames ==
    { [mp |-> 4, mt |-> DHCP_REQUEST,
       relay |-> [hops |-> 2, giaddr |-> <<10, 0, 0, 1>>]],
      [mp |-> 4, mt |-> DHCP_DISCOVER,
       relay |-> [hops |-> 0, giaddr |-> <<0, 0, 0, 0>>]],
      [mp |-> 6, mt |-> DHCP6_REQUEST,
       relay |-> [hops |-> 0, giaddr |-> <<0, 0, 0, 0>>]],
      [mp |-> 6, mt |-> DHCP6_SOLICIT,
       relay |-> [hops |-> 0, giaddr |-> <<0, 0, 0, 0>>]] }

\* what follows the option in the message: nothing, or an end option and
\* padding
EncTails == {<<>>, <<255, 1, 2, 3>>}

\* the token arguments: NULL or one of the configured tokens
EncTokens == {NULLPTR} \cup {StorePtr(i) : i \in 1..Len(Tokens)}

\* the size dhcp_auth_encode itself reports for the option, 0 if it fails
ExactSize(a, t, env) ==
    LET r == dhcp_auth_encode(a, t, <<>>, 4, DHCP_REQUEST, TRUE, 0, 0,
                              [fs |-> NoFile, lr |-> InitLr, rdm |-> <<>>],
                              get_next_rdm_monotonic(NoFile, InitLr, "ok"), env)
    IN  IF r.ret < 0 THEN 0 ELSE r.ret

\* the buffer handed to the encoder: the option area holds 170s
EncBuf(f, dlen, tail) ==
    LET msg == MkMsg(f.mp, f.mt, f.relay, [i \in 1..dlen |-> 170])
    IN  [msg EXCEPT !.m = @ \o tail]

\* the calls: emitting into slices of several sizes, the size query, and
\* slices that leave the message
EncCalls(a, env) ==
    { [t |-> t, msg |-> EncBuf(f, n, <<>>), dnull |-> FALSE] :
        t \in EncTokens, f \in EncFrames, n \in {5, 3 + SIZEOF_REPLAY, 20} }
    \cup
    { [t |-> t, msg |-> EncBuf(f, 20, tail), dnull |-> FALSE] :
        t \in EncTokens, f \in EncFrames, tail \in EncTails }
    \cup
    { [t |-> t, msg |-> EncBuf(f, ExactSize(a, t, env) + k, tail), dnull |-> FALSE] :
        t \in EncTokens, f \in EncFrames, tail \in EncTails, k \in {0, 2} }
    \cup
    { [t |-> t, msg |-> EncBuf(f, 0, <<>>), dnull |-> TRUE] :
        t \in EncTokens, f \in EncFrames }
    \cup
    { [t |-> t, msg |-> [EncBuf(f, 20, <<>>) EXCEPT !.data = -1], dnull |-> FALSE] :
        t \in EncTokens, f \in EncFrames }
    \cup
    { [t |-> t, msg |-> [EncBuf(f, 20, <<>>) EXCEPT !.dlen = 24], dnull |-> FALSE] :
        t \in EncTokens, f \in EncFrames }

\* two more token stores for the TOKEN protocol: one whose token with
\* secret id 0 and no realm expires at time 1, one without such a token
EncPolicies ==
    { [Policy(TRUE, AUTH_PROTO_TOKEN, AUTH_ALG_HMAC_MD5, AUTH_RDM_MONOTONIC)
          EXCEPT !.tokens[1].expire = 1],
      [Policy(TRUE, AUTH_PROTO_TOKEN, AUTH_ALG_HMAC_MD5, AUTH_RDM_MONOTONIC)
          EXCEPT !.tokens[1].secretid = 5] }

EncEnvs ==
    { [now |-> 1, timeFail |-> FALSE, failAt |-> 0, stack |-> Zeros(Len(Trail))],
      [now |-> MaxNow, timeFail |-> FALSE, failAt |-> 0, stack |-> Zeros(Len(Trail))],
      [now |-> 1, timeFail |-> TRUE, failAt |-> 0, stack |-> Zeros(Len(Trail))] }

InitEnc ==
    /\ state = InitState
    /\ auth \in {a \in Policies : a.send} \cup EncPolicies
    /\ now = 1
    /\ call = <<>>
    /\ fs = NoFile
    /\ lives = 0
    /\ rets = <<>>
    /\ pc = [p \in Procs |-> "idle"]
    /\ lock = 0
    /\ loc = [p \in Procs |-> InitProc]
    /\ enc = <<>>

\* get_next_rdm_monotonic has returned a value to process 1 that its call
\* of dhcp_auth_encode has yet to write
Drawn == Len(loc[1].rets) > Len(rets)

\* the calls made at the time and with the clock of env: only the search
\* for a default token (lines 371-389) reads the clock, and the time makes
\* a difference only to a token that expires
EncInputs(env) ==
    { x \in EncCalls(auth, env) :
        \/ auth.protocol = AUTH_PROTO_TOKEN /\ x.t = NULLPTR
        \/ env.now = 1 /\ ~env.timeFail
        \/ ~env.timeFail /\ x.t # NULLPTR /\ auth.tokens[x.t.ix].expire # 0 }

\* the call x of process 1 under env, rdm being what line 455 returned
EncodeCall(x, env, rdm) ==
    dhcp_auth_encode(auth, x.t, x.msg.m, x.msg.mp, x.msg.mt,
                     x.dnull, x.msg.data, x.msg.dlen,
                     [fs |-> fs, lr |-> loc[1].lr, rdm |-> <<>>],
                     [fs |-> fs, lr |-> loc[1].lr, rdm |-> rdm], env)

\* the call x under env returns before line 455
Refused(x, env) ==
    EncodeRefusal(auth, x.t, x.msg.m, x.dnull, x.msg.data, x.msg.dlen,
                  [fs |-> fs, lr |-> loc[1].lr, rdm |-> <<>>], env) # <<>>

\* lines 360-447: a call that returns before line 455; enc holds the call
\* and its result until the caller has taken it
EncodeEarly ==
    /\ pc[1] = "idle"
    /\ ~Drawn
    /\ \E env \in EncEnvs :
       \E x \in EncInputs(env) :
        LET res == EncodeCall(x, env, U64Zero)
        IN  /\ Refused(x, env)
            /\ enc' = <<[t |-> x.t, msg |-> x.msg, dnull |-> x.dnull,
                         env |-> env, res |-> res]>>
    /\ UNCHANGED <<state, auth, now, call, fs, lives, rets, pc, lock, loc>>

\* some call gets as far as line 455 under the policy
ReachesDraw ==
    \E env \in EncEnvs :
    \E x \in EncInputs(env) : ~Refused(x, env)

\* lines 360-455: a call gets to line 455 and get_next_rdm_monotonic makes
\* its first system call
EncodeDraw ==
    /\ ~Drawn
    /\ Len(rets) < MaxEncodes
    /\ ReachesDraw
    /\ OpenRW(1) \/ OpenFail(1)

\* lines 455-551: get_next_rdm_monotonic has returned and the call writes
\* the option
EncodeEmit ==
    /\ pc[1] = "idle"
    /\ Drawn
    /\ \E env \in EncEnvs :
       \E x \in EncInputs(env) :
        LET res == EncodeCall(x, env, loc[1].rets[Len(rets) + 1])
        IN  /\ ~Refused(x, env)
            /\ rets' = rets \o res.rdm
            /\ enc' = <<[t |-> x.t, msg |-> x.msg, dnull |-> x.dnull,
                         env |-> env, res |-> res]>>
    /\ UNCHANGED <<state, auth, now, call, fs, lives, pc, lock, loc>>

\* the steps of a call of dhcp_auth_encode by process 1
Encode ==
    /\ enc = <<>>
    /\ \/ EncodeEarly
       \/ EncodeDraw
       \/ Proceed(1)
       \/ Fails(1)
       \/ EncodeEmit

\* another process calls get_next_rdm_monotonic on the same file; its
\* system calls may fail as well
Other ==
    /\ enc = <<>>
    /\ \/ Len(loc[2].rets) < MaxOtherCalls /\ (OpenRW(2) \/ OpenFail(2))
       \/ Proceed(2)
       \/ Fails(2)

\* the caller takes the result
EncReturn ==
    /\ enc # <<>>
    /\ enc' = <<>>
    /\ UNCHANGED <<state, auth, now, call, fs, lives, rets, pc, lock, loc>>

NextEnc == Encode \/ Other \/ EncReturn

SpecEnc == InitEnc /\ [][NextEnc]_vars

(***************************************************************************)
(* Properties of dhcp_auth_encode                                          *)
(***************************************************************************)
\* the token a call encodes with: the one passed, or for protocol 0 the
\* first configured token with secret id 0 and no realm
UsedToken(a, t) ==
    IF t # NULLPTR THEN t
    ELSE IF a.protocol = 0 THEN StoreNamed(a.tokens, 0, <<>>)
    ELSE NULLPTR

\* the message type carries an authenticator under the protocol
CarriesMac(a, msg) ==
    \/ a.protocol = AUTH_PROTO_TOKEN
    \/ msg.mp = 4 /\ msg.mt \notin {DHCP_DISCOVER, DHCP_INFORM}
    \/ msg.mp = 6 /\ msg.mt \notin {DHCP6_SOLICIT, DHCP6_INFORMATION_REQ}

\* the size of the option for the token under the protocol
OptionSize(a, tok) ==
    3 + SIZEOF_REPLAY
      + (IF a.protocol = AUTH_PROTO_TOKEN THEN Len(tok.key)
         ELSE IF a.protocol = AUTH_PROTO_DELAYED THEN SIZEOF_SECRETID + HMAC_LENGTH
         ELSE Len(tok.realm) + SIZEOF_SECRETID + HMAC_LENGTH)

\* a call of the round trip: a supported policy with SEND set, a token, a
\* message type that carries an authenticator, an option of the size of
\* the token's option, filled by a successful emit call
RoundTripCall(e) ==
    /\ ~e.dnull
    /\ auth.send
    /\ auth.protocol \in {AUTH_PROTO_TOKEN, AUTH_PROTO_DELAYED, AUTH_PROTO_DELAYEDREALM}
    /\ auth.algorithm = AUTH_ALG_HMAC_MD5
    /\ auth.rdm = AUTH_RDM_MONOTONIC
    /\ UsedToken(auth, e.t) # NULLPTR
    /\ CarriesMac(auth, e.msg)
    /\ e.msg.dlen = OptionSize(auth, auth.tokens[UsedToken(auth, e.t).ix])
    /\ e.res.ret >= 0

\* the receiving side at the time of the call, with time() and malloc()
\* succeeding
Receiving(e) ==
    [now |-> e.env.now, timeFail |-> FALSE, failAt |-> 0,
     stack |-> Zeros(Len(Trail))]

\* the validator on a fresh authstate accepts the encoded message for the
\* token and records the replay value the encoder drew
RoundTrips(e) ==
    LET t == UsedToken(auth, e.t) IN
    /\ e.res.rdm # <<>>
    /\ dhcp_auth_validate(InitState, auth, e.res.m, e.msg.mp, e.msg.mt,
                          e.msg.data, e.msg.dlen, Receiving(e))
          = Ok([token |-> t, replay |-> htonll(e.res.rdm[1]), reconf |-> <<>>], t)

\* the wire form of the protocol identifies the token in the configured
\* list, and the token has not expired
Addressable(a, p, env) ==
    LET tok == a.tokens[p.ix] IN
    /\ a.protocol = AUTH_PROTO_TOKEN => tok.secretid = 0 /\ tok.realm = <<>>
    /\ a.protocol = AUTH_PROTO_DELAYED => tok.realm = <<>>
    /\ \A j \in 1..(p.ix - 1) :
          ~(a.tokens[j].secretid = tok.secretid /\ a.tokens[j].realm = tok.realm)
    /\ tok.expire = 0 \/ tok.expire >= env.now

\* C8 as stated: the round trip succeeds for every token of the store.
C8_Original ==
    \A i \in 1..Len(enc) : RoundTripCall(enc[i]) => RoundTrips(enc[i])

\* C8 amended: the round trip succeeds for every unexpired token that the
\* wire form of the protocol can identify: secret id 0 and no realm for
\* TOKEN, no realm for DELAYED, and the first token of the list with its
\* secret id and realm.
C8_RoundTrip ==
    \A i \in 1..Len(enc) :
        RoundTripCall(enc[i])
            /\ Addressable(auth, UsedToken(auth, enc[i].t), enc[i].env)
          => RoundTrips(enc[i])

\* C8 witness: a DELAYED_REALM option with a realm, encoded into a relayed
\* DHCPv4 REQUEST while the counter file could not be written, has made
\* the round trip.
C8_Witness ==
    \E i \in 1..Len(enc) :
        LET e == enc[i] IN
        /\ RoundTripCall(e)
        /\ Addressable(auth, UsedToken(auth, e.t), e.env)
        /\ auth.protocol = AUTH_PROTO_DELAYEDREALM
        /\ e.t = StorePtr(2)
        /\ e.msg.mp = 4 /\ e.msg.m[HWOPCOUNT_OFF + 1] # 0
        /\ loc[1].lr.last_rdm_set
        /\ RoundTrips(e)

\* C10: an emit call, failing or not, leaves every byte of m outside the
\* option slice as it was.
C10_OutsideSliceUntouched ==
    \A i \in 1..Len(enc) :
        LET e == enc[i] IN
        ~e.dnull =>
            \A k \in 1..Len(e.msg.m) :
                (k <= e.msg.data \/ k > e.msg.data + e.msg.dlen)
                    => e.res.m[k] = e.msg.m[k]

\* the policy is one the encoder supports
Supported(a) ==
    /\ a.protocol \in {AUTH_PROTO_TOKEN, AUTH_PROTO_DELAYED, AUTH_PROTO_DELAYEDREALM}
    /\ a.algorithm = AUTH_ALG_HMAC_MD5
    /\ a.rdm = AUTH_RDM_MONOTONIC

\* the option slice has room for the header and lies within the message
SliceOk(msg) ==
    /\ msg.dlen >= 3 + SIZEOF_REPLAY
    /\ msg.data >= 0
    /\ msg.data + msg.dlen <= Len(msg.m)

\* C14: an emit call writes no byte after the end of the option slice,
\* neither in m nor past the end of m, and returns either a leftover count
\* that is not negative or -1 with an error.
C14_WritesWithinSlice ==
    \A i \in 1..Len(enc) :
        LET e == enc[i] IN
        ~e.dnull =>
            /\ e.res.over = 0
            /\ \A k \in 1..Len(e.msg.m) :
                  k > e.msg.data + e.msg.dlen => e.res.m[k] = e.msg.m[k]
            /\ e.res.ret >= -1
            /\ e.res.ret = -1 => e.res.errno # "0"

\* the token of the call has an expiry that lies in the past
Expired(a, p, env) ==
    /\ p # NULLPTR
    /\ a.tokens[p.ix].expire # 0
    /\ ~env.timeFail
    /\ a.tokens[p.ix].expire < env.now

\* C16: an emit call under a supported policy, into a slice that can hold
\* the header, is denied (EPERM) when the token it would use has expired,
\* whether the token is passed or selected from the store.
C16_ExpiredTokenDenied ==
    \A i \in 1..Len(enc) :
        LET e == enc[i] IN
        ~e.dnull /\ Supported(auth) /\ SliceOk(e.msg)
            /\ Expired(auth, UsedToken(auth, e.t), e.env)
          => e.res.ret = -1 /\ e.res.errno = "EPERM"

\* the token can be selected from the store: it has no expiry, or time()
\* succeeds and the expiry has not passed
Selectable(a, p, env) ==
    \/ a.tokens[p.ix].expire = 0
    \/ ~env.timeFail /\ a.tokens[p.ix].expire >= env.now

\* C17 as stated: the size query returns 11 plus the key length for TOKEN,
\* 11 + 4 + 16 for DELAYED and 11 plus the realm length + 4 + 16 for
\* DELAYED_REALM, with a token passed or without.
C17_Original ==
    \A i \in 1..Len(enc) :
        LET e == enc[i]
            u == UsedToken(auth, e.t)
        IN  e.dnull /\ Supported(auth) =>
                /\ auth.protocol = AUTH_PROTO_DELAYED
                      => e.res.ret = 3 + SIZEOF_REPLAY + SIZEOF_SECRETID + HMAC_LENGTH
                /\ auth.protocol # AUTH_PROTO_DELAYED /\ u # NULLPTR
                      => e.res.ret = OptionSize(auth, auth.tokens[u.ix])

\* C17 amended: with a token passed, or for TOKEN the store's token with
\* secret id 0 and no realm when it can be selected, the size query returns
\* those sizes; for DELAYED and DELAYED_REALM without a token it returns 11.
C17_SizeQuery ==
    \A i \in 1..Len(enc) :
        LET e == enc[i]
            u == UsedToken(auth, e.t)
        IN  e.dnull /\ Supported(auth) =>
                /\ u # NULLPTR /\ (e.t = NULLPTR => Selectable(auth, u, e.env))
                      => /\ e.res.ret = OptionSize(auth, auth.tokens[u.ix])
                         /\ e.res.errno = "0"
                /\ u = NULLPTR /\ auth.protocol # AUTH_PROTO_TOKEN
                      => e.res.ret = 3 + SIZEOF_REPLAY /\ e.res.errno = "0"

\* C17 witness: the size query for DELAYED_REALM with the token of realm
\* "ac" has returned 11 + 2 + 4 + 16.
C17_Witness ==
    \E i \in 1..Len(enc) :
        LET e == enc[i] IN
        /\ e.dnull
        /\ auth.protocol = AUTH_PROTO_DELAYEDREALM /\ Supported(auth)
        /\ e.t = StorePtr(2)
        /\ e.res.ret = 3 + SIZEOF_REPLAY + Len(RealmAc) + SIZEOF_SECRETID + HMAC_LENGTH

\* the call returns before the header is written: a size query, a failed
\* token selection, an unsupported policy, a slice shorter than the header
\* or one that leaves the message
EarlyExit(e) ==
    \/ e.dnull
    \/ auth.protocol = 0 /\ e.t = NULLPTR
          /\ \/ UsedToken(auth, e.t) = NULLPTR
             \/ ~Selectable(auth, UsedToken(auth, e.t), e.env)
    \/ ~Supported(auth)
    \/ ~SliceOk(e.msg)

\* C20: a call that returns before the header is written leaves the file,
\* last_rdm and last_rdm_set and every byte of m as they were; every other
\* call draws exactly one value from the counter.
C20_EarlyExitKeepsCounter ==
    [][enc = <<>> /\ enc' # <<>> =>
          LET e == enc'[1] IN
          IF EarlyExit(e)
          THEN /\ fs' = fs /\ loc' = loc /\ rets' = rets /\ ~Drawn
               /\ e.res.rdm = <<>>
               /\ e.res.m = e.msg.m /\ e.res.over = 0
          ELSE /\ e.res.rdm # <<>>
               /\ rets' = Append(rets, e.res.rdm[1])
               /\ Len(loc[1].rets) = Len(rets')
               /\ e.res.rdm[1] = loc[1].rets[Len(rets')]]_vars

\* C20 witness: after a value had been drawn, an emit call whose slice
\* leaves the message has failed while the file could not be opened.
C20_Witness ==
    \E i \in 1..Len(enc) :
        LET e == enc[i] IN
        /\ ~e.dnull /\ Supported(auth)
        /\ e.res.errno = "ERANGE"
        /\ rets # <<>>
        /\ loc[1].lr.last_rdm # U64Zero /\ ~loc[1].lr.last_rdm_set
        /\ e.res.rdm = <<>>

====
